---- MODULE Spec2Model ----
(***************************************************************************)
(* Model of waveform3d.py (class Waveform3d): the numeric stages that turn  *)
(* an audio profile or a feature matrix into a height-map matrix, and the   *)
(* two drivers online_music_3d and local_audio_3d.                          *)
(*                                                                          *)
(* Numbers.  Python floats are modelled as exact rationals <<n, d>> in      *)
(* lowest terms with d > 0; <<0, 0>> stands for the float NaN that numpy    *)
(* produces for 0.0/0.0.  Rounding error of binary floating point is not    *)
(* modelled ("within floating tolerance" reads as exact equality here).     *)
(*                                                                          *)
(* Calls.  A Python call that may raise is modelled by an operator that     *)
(* returns a record [status, ...]: status "ok", or the name of the          *)
(* exception that leaves the function.                                      *)
(***************************************************************************)
EXTENDS Integers, Sequences, FiniteSets, TLC

VARIABLES
    op,          \* name of the last function or method that ran ("init" before any)
    input_list,  \* contents of the list object the caller handed to the function
    args,        \* the remaining arguments of that call
    ret,         \* what the call returned or raised
    self,        \* the fields of the Waveform3d instance
    settings,    \* the values load_settings read from the settings file
    calls,       \* stages run by the current driver invocation, in order
    runs         \* number of driver invocations so far

vars == <<op, input_list, args, ret, self, settings, calls, runs>>

----------------------------------------------------------------------------
(* Bounds of the model *)

MaxLen == 3          \* longest sequence handed to a stage
MaxVal == 2          \* largest integer sample value
MaxBound == 3        \* largest target bound a, b of a rescale
MaxMerge == 3        \* largest merge count of the bar quantizer
MaxHeight == 2       \* largest Z scale of the extruder
MaxDepth == 3        \* largest replication factor
MaxDim == 2          \* largest row / column count of a feature matrix
MaxPipeVal == 5      \* largest bar value fed to the profile pipeline
MaxY == 10           \* largest Y height of the profile pipeline
Window == 10         \* half-width of the length ranges tried around each pivot
MaxRuns == 2         \* driver invocations on one instance
MaxSamples == 3      \* longest sample sequence librosa.load returns
MaxSegments == 2     \* most segments of an analysis document
MaxBins == 2         \* most rows of a magnitude matrix
MaxFrames == 1       \* most columns of a magnitude matrix

----------------------------------------------------------------------------
(* Rational arithmetic standing in for Python float arithmetic *)

Abs(x) == IF x < 0 THEN -x ELSE x

RECURSIVE GCD(_, _)
GCD(x, y) == IF y = 0 THEN x ELSE GCD(y, x % y)

NaN == <<0, 0>>
IsNaN(r) == r[2] = 0

\* n/d in lowest terms, d # 0
Rat(n, d) ==
    LET g == GCD(Abs(n), Abs(d))
        s == IF d < 0 THEN -1 ELSE 1
    IN  <<(s * n) \div g, (s * d) \div g>>

RInt(n) == <<n, 1>>
RIsZero(r) == ~IsNaN(r) /\ r[1] = 0

RMul(x, y) == IF IsNaN(x) \/ IsNaN(y) THEN NaN ELSE Rat(x[1] * y[1], x[2] * y[2])
RAdd(x, y) == IF IsNaN(x) \/ IsNaN(y) THEN NaN
              ELSE Rat(x[1] * y[2] + y[1] * x[2], x[2] * y[2])
\* numpy float division: 0/0 is NaN; the callers never divide a non-zero by zero
RDivNumpy(x, y) == IF IsNaN(x) \/ IsNaN(y) \/ RIsZero(y) THEN NaN
                   ELSE Rat(x[1] * y[2], x[2] * y[1])
\* comparisons with NaN are False, as in Python
RLt(x, y) == ~IsNaN(x) /\ ~IsNaN(y) /\ x[1] * y[2] < y[1] * x[2]
RGt(x, y) == RLt(y, x)
\* math.ceil of a finite float
RCeil(x) == -((-x[1]) \div x[2])

\* Python's builtin max(seq) / min(seq) on a non-empty sequence: keep the first
\* element and replace it by each later element that compares greater / smaller
RECURSIVE PyMaxFrom(_, _, _)
PyMaxFrom(s, i, cur) ==
    IF i > Len(s) THEN cur
    ELSE PyMaxFrom(s, i + 1, IF RGt(s[i], cur) THEN s[i] ELSE cur)
PyMax(s) == PyMaxFrom(s, 2, s[1])

RECURSIVE PyMinFrom(_, _, _)
PyMinFrom(s, i, cur) ==
    IF i > Len(s) THEN cur
    ELSE PyMinFrom(s, i + 1, IF RLt(s[i], cur) THEN s[i] ELSE cur)
PyMin(s) == PyMinFrom(s, 2, s[1])

----------------------------------------------------------------------------
(* _rescale_list(input_list, a, b), lines 85-90.                            *)
(* list: the contents of the caller's list object when the call ends (the   *)
(* loop multiplies in place); value: the returned object, which is that     *)
(* same list.  max() of an empty sequence raises ValueError, the division   *)
(* by float(0) raises ZeroDivisionError; both happen before the loop.       *)

\* variant that guards the zero maximum and hands the list back untouched
_rescale_list_guarded(lst, a, b) ==
    IF Len(lst) = 0
    THEN [status |-> "ValueError", list |-> lst, value |-> <<>>]
    ELSE LET input_max == PyMax(lst) IN
         IF RIsZero(input_max)
         THEN [status |-> "ok", list |-> lst, value |-> lst]
         ELSE LET rescale_factor ==
                      IF IsNaN(input_max) THEN NaN
                      ELSE Rat((b - a) * input_max[2], input_max[1])
                  scaled == [i \in 1..Len(lst) |-> RMul(lst[i], rescale_factor)]
              IN  [status |-> "ok", list |-> scaled, value |-> scaled]

_rescale_list(lst, a, b) ==
    IF Len(lst) = 0
    THEN [status |-> "ValueError", list |-> lst, value |-> <<>>]
    ELSE LET input_max == PyMax(lst) IN
         IF RIsZero(input_max)
         THEN [status |-> "ZeroDivisionError", list |-> lst, value |-> <<>>]
         ELSE LET rescale_factor ==
                      IF IsNaN(input_max) THEN NaN
                      ELSE Rat((b - a) * input_max[2], input_max[1])
                  scaled == [i \in 1..Len(lst) |-> RMul(lst[i], rescale_factor)]
              IN  [status |-> "ok", list |-> scaled, value |-> scaled]

----------------------------------------------------------------------------
(* _increase_model_depth(matrix, n), lines 93-101: every element of every   *)
(* inner list is appended n times in a row.                                 *)

RECURSIVE AppendTimes(_, _, _)
AppendTimes(new_col, x, k) ==
    IF k <= 0 THEN new_col ELSE AppendTimes(Append(new_col, x), x, k - 1)

RECURSIVE RepeatEach(_, _, _, _)
RepeatEach(new_col, row, j, n) ==
    IF j > Len(row) THEN new_col
    ELSE RepeatEach(AppendTimes(new_col, row[j], n), row, j + 1, n)

\* variant that appends whole copies of the inner list one after another
_increase_model_depth_interleaved(matrix, n) ==
    [i \in 1..Len(matrix) |->
        [c \in 1..(Len(matrix[i]) * n) |-> matrix[i][((c - 1) % Len(matrix[i])) + 1]]]

_increase_model_depth(matrix, n) ==
    [i \in 1..Len(matrix) |-> RepeatEach(<<>>, matrix[i], 1, n)]

----------------------------------------------------------------------------
(* make_waveform_square(waveform, n_bars_to_merge), lines 126-136.          *)
(* none: the function returned None (empty input).  i % 0 raises            *)
(* ZeroDivisionError on the first pass of the loop.                         *)

RECURSIVE SquareLoop(_, _, _, _, _)
SquareLoop(waveform, n, i, stored_wf_val, res_waveform) ==
    IF i > Len(waveform) - 1 THEN res_waveform
    ELSE LET curr_wf_val == waveform[i + 1]
             stored == IF i % n = 0 THEN curr_wf_val ELSE stored_wf_val
         IN  SquareLoop(waveform, n, i + 1, stored, Append(res_waveform, stored))

make_waveform_square(waveform, n) ==
    IF Len(waveform) = 0 THEN [status |-> "ok", none |-> TRUE, value |-> <<>>]
    ELSE IF n = 0 /\ Len(waveform) > 1
         THEN [status |-> "ZeroDivisionError", none |-> FALSE, value |-> <<>>]
    ELSE [status |-> "ok", none |-> FALSE,
          value |-> SquareLoop(waveform, n, 1, waveform[1], <<>>)]

----------------------------------------------------------------------------
(* make_waveform_3d(waveform, height), lines 139-156.                       *)
(* The matrix is a sequence of rows; numpy row r, column j is mat[r+1][j+1].*)

Zeros(rows, cols) == [r \in 1..rows |-> [c \in 1..cols |-> 0]]

\* numpy item assignment mat[r][j] = v: a negative row index counts from the
\* end, an index outside the matrix raises IndexError
NumpySet(mat, r, j, v) ==
    LET rows == Len(mat)
        rr == IF r < 0 THEN r + rows ELSE r
    IN  IF rr < 0 \/ rr >= rows THEN [ok |-> FALSE, mat |-> mat]
        ELSE [ok |-> TRUE, mat |-> [mat EXCEPT ![rr + 1][j + 1] = v]]

\* variant writing one row too far
LowerRowOffByOne(m, i) == m + i + 1

\* row written below the centre row for loop index i
LowerRow(m, i) == m + i

\* the double loop of lines 145-153, pass k = i*n + j
RECURSIVE FillLoop(_, _, _, _, _, _)
FillLoop(mat, waveform, m, n, min_loudness_value, k) ==
    IF k >= m * n THEN [ok |-> TRUE, mat |-> mat]
    ELSE LET i == k \div n
             j == k % n
             curr_l_value == RAdd(waveform[j + 1], min_loudness_value)
             v == IF RLt(RInt(i), curr_l_value) THEN 1 ELSE 0
             w1 == NumpySet(mat, m - i, j, v)
             w2 == NumpySet(w1.mat, LowerRow(m, i), j, v)
         IN  IF ~w1.ok \/ ~w2.ok THEN [ok |-> FALSE, mat |-> mat]
             ELSE FillLoop(w2.mat, waveform, m, n, min_loudness_value, k + 1)

make_waveform_3d(waveform, height) ==
    IF Len(waveform) = 0 THEN [status |-> "ValueError", value |-> <<>>]   \* max([])
    ELSE LET n == Len(waveform)
             wmax == PyMax(waveform)
         IN  IF IsNaN(wmax) THEN [status |-> "ValueError", value |-> <<>>]  \* ceil(nan)
             ELSE LET m == RCeil(wmax) IN
                  IF m < 0 THEN [status |-> "ValueError", value |-> <<>>]   \* np.zeros
                  ELSE LET min_loudness_value == RMul(wmax, Rat(1, 10))
                           f == FillLoop(Zeros(2 * m, n), waveform, m, n,
                                         min_loudness_value, 0)
                       IN  IF ~f.ok THEN [status |-> "IndexError", value |-> <<>>]
                           ELSE [status |-> "ok",
                                 value |-> [r \in 1..(2 * m) |->
                                              [c \in 1..n |-> f.mat[r][c] * height]]]

----------------------------------------------------------------------------
(* Downsample factor, lines 218-222 and 242-246.  str(n) is the sequence of *)
(* decimal digit characters of n, len(str(n)) its length, int(str(n)[0])    *)
(* the value of the first character.                                        *)

RECURSIVE Str(_)
Str(n) == IF n < 10 THEN <<n>> ELSE Append(Str(n \div 10), n % 10)

RECURSIVE Pow(_, _)
Pow(x, k) == IF k = 0 THEN 1 ELSE x * Pow(x, k - 1)

\* variant that drops the leading-digit factor
downsample_factor_pow_only(length) ==
    IF length > 1000
    THEN LET m == Len(Str(length)) IN Pow(10, m - 1 - 3)
    ELSE 1

downsample_factor(length) ==
    IF length > 1000
    THEN LET m == Len(Str(length)) IN Pow(10, m - 1 - 3) * Str(length)[1]
    ELSE 1

\* indices that pass the test i % downsample_factor == 0 of lines 223 and 250
StrideIndices(length, factor) == {i \in 0..(length - 1) : i % factor = 0}

----------------------------------------------------------------------------
(* _movingaverage(values, window), lines 67-73: np.convolve(values,         *)
(* weights, 'valid') with window equal weights 1/window.  numpy raises      *)
(* ValueError when either array is empty, and swaps the two arrays when the *)
(* weights are the longer one, so the output always has                     *)
(* max(L, W) - min(L, W) + 1 elements.                                      *)

RECURSIVE RSum(_, _, _)
RSum(s, lo, hi) == IF lo > hi THEN RInt(0) ELSE RAdd(s[lo], RSum(s, lo + 1, hi))

_movingaverage(values, window) ==
    IF window <= 0 \/ Len(values) = 0 THEN [status |-> "ValueError", value |-> <<>>]
    ELSE LET L == Len(values)
             W == window
         IN  [status |-> "ok",
              value |-> IF L >= W
                        THEN [k \in 1..(L - W + 1) |->
                                 RMul(RSum(values, k, k + W - 1), Rat(1, W))]
                        ELSE [k \in 1..(W - L + 1) |->
                                 RMul(RSum(values, 1, L), Rat(1, W))]]

----------------------------------------------------------------------------
(* _process_loudness_list(loudness_list), lines 59-64.  min() of an empty   *)
(* array raises ValueError; the division is numpy's, so 0/0 gives NaN.      *)

_process_loudness_list(s, loudness_list) ==
    IF Len(loudness_list) = 0 THEN [status |-> "ValueError", value |-> <<>>]
    ELSE LET mn == PyMin(loudness_list)
             shifted == [i \in 1..Len(loudness_list) |->
                            RAdd(loudness_list[i], RMul(mn, RInt(-1)))]
             l_max == PyMax(shifted)
         IN  [status |-> "ok",
              value |-> [i \in 1..Len(shifted) |->
                           RDivNumpy(RMul(shifted[i], shifted[i]),
                                     RMul(s.scale_factor, l_max))]]

----------------------------------------------------------------------------
(* load_settings, lines 111-123, and __init__, lines 24-32.  The settings   *)
(* file holds numbers; int() truncates towards zero, float() keeps the      *)
(* value.                                                                   *)

PyInt(r) == IF r[1] >= 0 THEN r[1] \div r[2] ELSE -((-r[1]) \div r[2])
PyFloat(r) == r

load_settings(st) ==
    [EN_API_KEY         |-> st.en_api_key,
     OUTPUT_FOLDER      |-> st.output_folder,
     height_Y           |-> PyInt(st.height_Y),
     height_Z           |-> PyInt(st.height_Z),
     ma_window_size     |-> PyInt(st.ma_window),
     depth_factor       |-> PyInt(st.depth_factor),
     min_absolute_value |-> PyInt(st.min_absolute_value),
     n_waveform_bars    |-> PyInt(st.n_waveform_bars),
     scale              |-> PyFloat(st.scale),
     mask_val           |-> PyFloat(st.mask_val)]

\* the instance after __init__: the loaded fields plus scale_factor = 0.5
\* (self.en is first assigned by online_music_3d)
Waveform3d(st) == load_settings(st) @@ [scale_factor |-> Rat(1, 2), en |-> "unset"]

----------------------------------------------------------------------------
(* Export, lines 193-201 and 256-264.  OUTPUT_FOLDER is a str, so the       *)
(* append on a folder without trailing '/' raises AttributeError; otherwise *)
(* numpy2stl receives the matrix with self.scale and self.mask_val.         *)

Outcome(status, s, cl, found, exported, model_3d) ==
    [status |-> status, self |-> s, calls |-> cl, found |-> found,
     exported |-> exported, model_3d |-> model_3d,
     mask_val |-> s.mask_val, scale |-> s.scale]

Export(s, cl, model_3d) ==
    IF Len(s.OUTPUT_FOLDER) = 0
    THEN Outcome("IndexError", s, cl, TRUE, FALSE, model_3d)
    ELSE IF s.OUTPUT_FOLDER[Len(s.OUTPUT_FOLDER)] # "/"
    THEN Outcome("AttributeError", s, cl, TRUE, FALSE, model_3d)
    ELSE Outcome("ok", s, Append(cl, "numpy2stl"), TRUE, TRUE, model_3d)

\* the three calls of lines 180-183 and 228-233 on a profile
ProfileStages(s, cl, profile) ==
    LET r == _rescale_list(profile, 0, s.height_Y)
        c1 == Append(cl, "_rescale_list")
    IN  IF r.status # "ok" THEN Outcome(r.status, s, c1, TRUE, FALSE, <<>>)
        ELSE LET q == make_waveform_square(r.value, s.n_waveform_bars)
                 c2 == Append(c1, "make_waveform_square")
             IN  IF q.status # "ok" THEN Outcome(q.status, s, c2, TRUE, FALSE, <<>>)
                 ELSE LET c3 == Append(c2, "make_waveform_3d") IN
                      IF q.none    \* len(None)
                      THEN Outcome("TypeError", s, c3, TRUE, FALSE, <<>>)
                      ELSE LET e == make_waveform_3d(q.value, s.height_Z) IN
                           IF e.status # "ok"
                           THEN Outcome(e.status, s, c3, TRUE, FALSE, <<>>)
                           ELSE Export(s, c3, e.value)

\* the loops of lines 187-188 and 248-252: rescale row after row, stop at the
\* first row that raises
RECURSIVE RescaleRows(_, _, _, _, _, _)
RescaleRows(rows, i, a, b, cl, acc) ==
    IF i > Len(rows) THEN [status |-> "ok", calls |-> cl, value |-> acc]
    ELSE LET r == _rescale_list(rows[i], a, b)
             c1 == Append(cl, "_rescale_list")
         IN  IF r.status # "ok" THEN [status |-> r.status, calls |-> c1, value |-> acc]
             ELSE RescaleRows(rows, i + 1, a, b, c1, Append(acc, r.value))

----------------------------------------------------------------------------
(* online_music_3d(artist_name, track_name, mode), lines 172-201.           *)
(* response: what the Echo Nest search answered; segments: the segments of  *)
(* the analysis document when a song was found.                             *)

\* _get_segments, lines 37-47
_get_segments(response, segments) ==
    IF response = "Success" THEN [status |-> "ok", none |-> FALSE, value |-> segments]
    ELSE IF response = "SuccessNoSongs"     \* response['songs'][0]
    THEN [status |-> "IndexError", none |-> FALSE, value |-> <<>>]
    ELSE [status |-> "ok", none |-> TRUE, value |-> <<>>]

\* _get_features_list, lines 50-56
_get_features_list(segments, mode) == [i \in 1..Len(segments) |-> segments[i][mode]]

\* lines 176-201, run when audio_segments is not None
OnlineStages(s, audio_segments, mode) ==
    LET audio_features == _get_features_list(audio_segments, mode)
        c0 == <<"_get_segments", "_get_features_list">>
    IN  IF mode = "loudness_max"
        THEN LET l == _process_loudness_list(s, audio_features)
                 c1 == Append(c0, "_process_loudness_list")
             IN  IF l.status # "ok" THEN Outcome(l.status, s, c1, TRUE, FALSE, <<>>)
                 ELSE ProfileStages(s, c1, l.value)
        ELSE LET n == RescaleRows(audio_features, 1, s.min_absolute_value,
                                  s.height_Z, c0, <<>>)
             IN  IF n.status # "ok" THEN Outcome(n.status, s, n.calls, TRUE, FALSE, <<>>)
                 ELSE Export(s, Append(n.calls, "_increase_model_depth"),
                             _increase_model_depth(n.value, s.depth_factor))

\* variant without the test of line 175: a missing result is processed as
\* an empty list of segments
online_music_3d_unguarded(s, response, segments, mode) ==
    LET s1 == [s EXCEPT !.en = "Pyen"]
        g == _get_segments(response, segments)
    IN  IF g.status # "ok"
        THEN Outcome(g.status, s1, <<"_get_segments">>, FALSE, FALSE, <<>>)
        ELSE OnlineStages(s1, g.value, mode)

online_music_3d(s, response, segments, mode) ==
    LET s1 == [s EXCEPT !.en = "Pyen"]
        g == _get_segments(response, segments)
    IN  IF g.status # "ok"
        THEN Outcome(g.status, s1, <<"_get_segments">>, FALSE, FALSE, <<>>)
        ELSE IF g.none
        THEN Outcome("ok", s1, <<"_get_segments">>, FALSE, FALSE, <<>>)
        ELSE OnlineStages(s1, g.value, mode)

----------------------------------------------------------------------------
(* local_audio_3d(filepath, mode), lines 213-264.  waveform: the samples    *)
(* librosa.load returned; stft: the magnitude matrix of librosa.stft and    *)
(* magphase (one row per frequency bin).                                    *)

\* line 223
RECURSIVE HalfWaveform(_, _, _, _)
HalfWaveform(waveform, downsample, i, acc) ==
    IF i > Len(waveform) - 1 THEN acc
    ELSE HalfWaveform(waveform, downsample, i + 1,
             IF RGt(waveform[i + 1], RInt(0)) /\ i % downsample = 0
             THEN Append(acc, waveform[i + 1]) ELSE acc)

\* line 249-250: max(curr_fft) of an empty row raises ValueError
DownsampleRow(curr_fft, downsample) ==
    IF Len(curr_fft) = 0 THEN [status |-> "ValueError", value |-> <<>>]
    ELSE LET min_loudness_value == PyMax(curr_fft)
             idx == {j \in 0..(Len(curr_fft) - 1) : j % downsample = 0}
         IN  [status |-> "ok",
              value |-> [k \in 1..Cardinality(idx) |->
                           RAdd(curr_fft[(k - 1) * downsample + 1],
                                min_loudness_value)]]

\* lines 248-252: each row is downsampled and rescaled before the next one
RECURSIVE StftRows(_, _, _, _, _, _)
StftRows(s, stft, downsample, i, cl, acc) ==
    IF i > Len(stft) THEN [status |-> "ok", calls |-> cl, value |-> acc]
    ELSE LET d == DownsampleRow(stft[i], downsample) IN
         IF d.status # "ok" THEN [status |-> d.status, calls |-> cl, value |-> acc]
         ELSE LET r == _rescale_list(d.value, s.min_absolute_value, s.height_Z)
                  c1 == Append(cl, "_rescale_list")
              IN  IF r.status # "ok"
                  THEN [status |-> r.status, calls |-> c1, value |-> acc]
                  ELSE StftRows(s, stft, downsample, i + 1, c1, Append(acc, r.value))

local_audio_3d(s, waveform, stft, mode) ==
    IF mode = "waveform"
    THEN LET df == downsample_factor(Len(waveform))
             half_waveform == HalfWaveform(waveform, df, 0, <<>>)
             ma == _movingaverage(half_waveform, s.ma_window_size)
             c1 == <<"_movingaverage">>
         IN  IF ma.status # "ok" THEN Outcome(ma.status, s, c1, TRUE, FALSE, <<>>)
             ELSE ProfileStages(s, c1, ma.value)
    ELSE LET s1 == [s EXCEPT !.mask_val = RMul(s.mask_val, Rat(1, 100))]
             c1 == <<"stft">>
         IN  IF Len(stft) = 0      \* stft[0]
             THEN Outcome("IndexError", s1, c1, TRUE, FALSE, <<>>)
             ELSE LET df == downsample_factor(Len(stft[1]))
                      n == StftRows(s1, stft, df, 1, c1, <<>>)
                  IN  IF n.status # "ok"
                      THEN Outcome(n.status, s1, n.calls, TRUE, FALSE, <<>>)
                      ELSE Export(s1, n.calls, n.value)

----------------------------------------------------------------------------
(* Input domains *)

Vals == {RInt(n) : n \in -1..MaxVal} \cup {Rat(1, 2)}

SeqsUpTo(S, n) == UNION {[1..k -> S] : k \in 0..n}

NoSelf == [loaded |-> FALSE]
NoRet == [status |-> "none"]

----------------------------------------------------------------------------
(* Specification of the Rescaler alone: any list, any bounds, one call *)

InitRescale ==
    /\ op = "init"
    /\ input_list \in SeqsUpTo(Vals, MaxLen)
    /\ args \in [a : 0..MaxBound, b : 0..MaxBound]
    /\ ret = NoRet
    /\ self = NoSelf /\ settings = NoSelf /\ calls = <<>> /\ runs = 0

CallRescale ==
    /\ op = "init"
    /\ LET r == _rescale_list(input_list, args.a, args.b) IN
         /\ input_list' = r.list
         /\ ret' = [status |-> r.status, value |-> r.value]
    /\ op' = "_rescale_list"
    /\ UNCHANGED <<args, self, settings, calls, runs>>

NextRescale == CallRescale

SpecRescale == InitRescale /\ [][NextRescale]_vars

\* x is a largest element of s (s holds no NaN)
IsMaxOf(x, s) ==
    /\ \E i \in 1..Len(s) : s[i] = x
    /\ \A i \in 1..Len(s) : ~RGt(s[i], x)

RescaleErrors == {"ValueError", "ZeroDivisionError"}

\* C1: after a successful _rescale_list(seq, a, b) on a non-empty sequence
\* with non-zero maximum, the maximum of the returned sequence equals b
\* (stated for proper target bounds a < b).
C1_RescaleMaxIsB ==
    (op = "_rescale_list" /\ ret.status = "ok" /\ args.a < args.b)
        => IsMaxOf(RInt(args.b), ret.value)

\* C8: _rescale_list on an empty sequence raises ValueError (insufficient
\* data), on a non-empty sequence with maximum zero raises ZeroDivisionError
\* (degenerate input); the two outcomes differ, nothing is returned, and the
\* caller's sequence is left as it was.
C8_RescaleErrorOutcomes ==
    [][(op = "init" /\ op' = "_rescale_list") =>
          /\ Len(input_list) = 0 => ret'.status = "ValueError"
          /\ (Len(input_list) > 0 /\ IsMaxOf(RInt(0), input_list))
                 => ret'.status = "ZeroDivisionError"
          /\ ret'.status \in RescaleErrors
                 => (ret'.value = <<>> /\ input_list' = input_list)
          /\ ret'.status \in RescaleErrors
                 <=> (Len(input_list) = 0 \/ IsMaxOf(RInt(0), input_list))]_vars

C8_Witness ==
    /\ op = "_rescale_list"
    /\ ret.status = "ZeroDivisionError"
    /\ Len(input_list) = 2
    /\ input_list[1] # input_list[2]

\* C10: a successful _rescale_list leaves the sequence it was given
\* unchanged (the result is a new sequence).
C10_RescaleKeepsInput ==
    [][(op = "init" /\ op' = "_rescale_list" /\ ret'.status = "ok")
          => input_list' = input_list]_vars

----------------------------------------------------------------------------
(* Specification of the Bar Quantizer alone *)

InitSquare ==
    /\ op = "init"
    /\ input_list \in SeqsUpTo(Vals, MaxLen)
    /\ args \in [n_bars_to_merge : 0..MaxMerge]
    /\ ret = NoRet
    /\ self = NoSelf /\ settings = NoSelf /\ calls = <<>> /\ runs = 0

CallSquare ==
    /\ op = "init"
    /\ ret' = make_waveform_square(input_list, args.n_bars_to_merge)
    /\ op' = "make_waveform_square"
    /\ UNCHANGED <<input_list, args, self, settings, calls, runs>>

NextSquare == CallSquare

SpecSquare == InitSquare /\ [][NextSquare]_vars

\* C2: for every profile and merge count N >= 1 the profile returned by
\* make_waveform_square is as long as the profile passed in.
C2_SquareKeepsLength ==
    (/\ op = "make_waveform_square" /\ args.n_bars_to_merge >= 1
           /\ ret.status = "ok" /\ ~ret.none)
        => Len(ret.value) = Len(input_list)

----------------------------------------------------------------------------
(* Specification of the Heightmap Extruder alone *)

Init3d ==
    /\ op = "init"
    /\ input_list \in SeqsUpTo(Vals, MaxLen)
    /\ args \in [height : 0..MaxHeight]
    /\ ret = NoRet
    /\ self = NoSelf /\ settings = NoSelf /\ calls = <<>> /\ runs = 0

Call3d ==
    /\ op = "init"
    /\ ret' = make_waveform_3d(input_list, args.height)
    /\ op' = "make_waveform_3d"
    /\ UNCHANGED <<input_list, args, self, settings, calls, runs>>

Next3d == Call3d

Spec3d == Init3d /\ [][Next3d]_vars

NonNegative(s) == \A i \in 1..Len(s) : ~RLt(s[i], RInt(0))

\* m is ceil of the largest element of the non-empty sequence s
IsCeilMax(m, s) ==
    /\ \A i \in 1..Len(s) : ~RGt(s[i], RInt(m))
    /\ \E i \in 1..Len(s) : RGt(s[i], RInt(m - 1))

\* C3: for a non-negative profile of length N with m = ceil(max) >= 1 and any
\* Z scale, make_waveform_3d writes only rows inside [0, 2m) (no IndexError),
\* returns a matrix of shape (2m, N), and rows m-i and m+i agree for every
\* i in [0, m), every entry being 0 or the Z scale.
C3_ExtruderShapeSymmetry ==
    (op = "make_waveform_3d" /\ Len(input_list) > 0 /\ NonNegative(input_list))
      => \A m \in 1..(MaxVal + 1) :
           IsCeilMax(m, input_list) =>
             /\ ret.status = "ok"
             /\ Len(ret.value) = 2 * m
             /\ \A r \in 1..(2 * m) : Len(ret.value[r]) = Len(input_list)
             /\ \A i \in 0..(m - 1) : \A j \in 1..Len(input_list) :
                  /\ ret.value[m - i + 1][j] = ret.value[m + i + 1][j]
                  /\ ret.value[m - i + 1][j] \in {0, args.height}

C3_Witness ==
    /\ op = "make_waveform_3d"
    /\ ret.status = "ok"
    /\ args.height = 2
    /\ Len(input_list) = 3
    /\ NonNegative(input_list)
    /\ IsCeilMax(2, input_list)
    /\ \E j \in 1..3 : ret.value[4][j] = 2 /\ ret.value[2][j] = 2
    /\ \E j \in 1..3 : ret.value[4][j] = 0 /\ ret.value[2][j] = 0

----------------------------------------------------------------------------
(* Specification of the Depth Replicator alone *)

Cells == 0..2

InitDepth ==
    /\ op = "init"
    /\ input_list \in SeqsUpTo(SeqsUpTo(Cells, MaxDim), MaxDim)
    /\ args \in [n : 0..MaxDepth]
    /\ ret = NoRet
    /\ self = NoSelf /\ settings = NoSelf /\ calls = <<>> /\ runs = 0

CallDepth ==
    /\ op = "init"
    /\ ret' = [status |-> "ok", value |-> _increase_model_depth(input_list, args.n)]
    /\ op' = "_increase_model_depth"
    /\ UNCHANGED <<input_list, args, self, settings, calls, runs>>

NextDepth == CallDepth

SpecDepth == InitDepth /\ [][NextDepth]_vars

Rectangular(mat) == \A i, k \in 1..Len(mat) : Len(mat[i]) = Len(mat[k])

----------------------------------------------------------------------------
(* Specification of the profile pipeline, lines 180-183: rescale to the Y   *)
(* height, bar-quantize, extrude; one action per call.  ret keeps the       *)
(* value each stage returned; a stage that raises ends the run.             *)

PipeVals == {RInt(n) : n \in 0..MaxPipeVal}

InitPipe ==
    /\ op = "init"
    /\ input_list \in SeqsUpTo(PipeVals, MaxLen)
    /\ args \in [height_Y : {2, MaxY}, n_waveform_bars : 1..2, height_Z : 1..MaxHeight]
    /\ ret = [status |-> "ok", profile |-> input_list, rescaled |-> <<>>,
              squared |-> <<>>, model_3d |-> <<>>]
    /\ self = NoSelf /\ settings = NoSelf /\ calls = <<>> /\ runs = 0

PipeRescale ==
    /\ op = "init"
    /\ LET r == _rescale_list(input_list, 0, args.height_Y) IN
         /\ input_list' = r.list
         /\ ret' = [ret EXCEPT !.status = r.status, !.rescaled = r.value]
    /\ op' = "_rescale_list"
    /\ UNCHANGED <<args, self, settings, calls, runs>>

PipeSquare ==
    /\ op = "_rescale_list" /\ ret.status = "ok"
    /\ LET r == make_waveform_square(ret.rescaled, args.n_waveform_bars) IN
         ret' = [ret EXCEPT !.status = r.status, !.squared = r.value]
    /\ op' = "make_waveform_square"
    /\ UNCHANGED <<input_list, args, self, settings, calls, runs>>

PipeExtrude ==
    /\ op = "make_waveform_square" /\ ret.status = "ok"
    /\ LET r == make_waveform_3d(ret.squared, args.height_Z) IN
         ret' = [ret EXCEPT !.status = r.status, !.model_3d = r.value]
    /\ op' = "make_waveform_3d"
    /\ UNCHANGED <<input_list, args, self, settings, calls, runs>>

NextPipe == PipeRescale \/ PipeSquare \/ PipeExtrude

SpecPipe == InitPipe /\ [][NextPipe]_vars

\* number of non-zero rows of column j of a matrix
NonZeroRows(mat, j) == Cardinality({r \in 1..Len(mat) : mat[r][j] # 0})

\* C4: rescaling a profile of length n to the Y height, bar-quantizing with
\* N = 1 and extruding with Z = 1 gives a matrix of shape
\* (2*ceil(max(rescaled)), n), one column per input element, in which the
\* column of a larger input value never has fewer non-zero rows than the
\* column of a smaller one.
C4_PipelineShapeAndOrder ==
    (/\ op = "make_waveform_3d" /\ ret.status = "ok"
     /\ args.n_waveform_bars = 1 /\ args.height_Z = 1)
      => LET n == Len(ret.profile) IN
         /\ \A m \in 0..MaxY : IsCeilMax(m, ret.rescaled) => Len(ret.model_3d) = 2 * m
         /\ \A r \in 1..Len(ret.model_3d) : Len(ret.model_3d[r]) = n
         /\ \A j, k \in 1..n :
               RGt(ret.profile[j], ret.profile[k])
                 => NonZeroRows(ret.model_3d, j) >= NonZeroRows(ret.model_3d, k)

----------------------------------------------------------------------------
(* Specification of the Downsampler's stride: a length, then the stride and *)
(* the indices it keeps.  Lengths are taken around the places where the     *)
(* digit count or the leading digit changes.                                *)

Pivots == {0, 1000, 2000, 5000, 10000, 20000, 100000, 200000}
Lengths == {l \in UNION {(p - Window)..(p + Window) : p \in Pivots} : l >= 0}

InitStride ==
    /\ op = "init"
    /\ input_list = <<>>
    /\ args \in [length : Lengths]
    /\ ret = NoRet
    /\ self = NoSelf /\ settings = NoSelf /\ calls = <<>> /\ runs = 0

Downsample ==
    /\ op = "init"
    /\ LET f == downsample_factor(args.length) IN
         ret' = [status |-> "ok", downsample_factor |-> f,
                 kept |-> Cardinality(StrideIndices(args.length, f))]
    /\ op' = "downsample"
    /\ UNCHANGED <<input_list, args, self, settings, calls, runs>>

NextStride == Downsample

SpecStride == InitStride /\ [][NextStride]_vars

\* stride the spec prescribes for a length L > 1000: 10^(m-4) * d, where L has
\* m decimal digits and leading digit d
IsSpecStride(f, L) ==
    \E m \in 4..7 : \E d \in 1..9 :
        /\ d * Pow(10, m - 1) <= L
        /\ L < (d + 1) * Pow(10, m - 1)
        /\ f = Pow(10, m - 4) * d

StrideFormula ==
    /\ ret.downsample_factor \in Nat \ {0}
    /\ args.length <= 1000 => ret.downsample_factor = 1
    /\ args.length > 1000 => IsSpecStride(ret.downsample_factor, args.length)

\* C9 (as claimed): the stride is 1 for L <= 1000 and 10^(m-4)*leadingDigit(L)
\* otherwise, a positive integer, and for L > 1000 the number of kept indices
\* is at least 1000 and less than 2000.
C9_StrideKeepsUnder2000 ==
    op = "downsample" =>
        /\ StrideFormula
        /\ args.length > 1000 => (ret.kept >= 1000 /\ ret.kept < 2000)

\* C9 (amended): as above, but the number of kept indices for L > 1000 is at
\* least 1000 and at most 2000.
C9_StrideKeepsAtMost2000 ==
    op = "downsample" =>
        /\ StrideFormula
        /\ args.length > 1000 => (ret.kept >= 1000 /\ ret.kept <= 2000)

C9_Witness ==
    /\ op = "downsample"
    /\ args.length > 10000
    /\ ret.downsample_factor = 10
    /\ ret.kept = 2000

----------------------------------------------------------------------------
(* Specification of one Waveform3d instance: constructed from a settings    *)
(* file that load_settings could read, then driven by any sequence of       *)
(* online_music_3d and local_audio_3d invocations.  An invocation that      *)
(* raises leaves the fields as they were when the exception left the        *)
(* method.  Every segment of an analysis document carries the three feature *)
(* keys, so _get_features_list never takes its except branch.               *)

SettingsFiles ==
    [en_api_key : {"key"},
     output_folder : {<<"o", "/">>, <<"o">>},
     height_Y : {Rat(7, 2)},
     height_Z : {RInt(2)},
     ma_window : {RInt(1), RInt(2)},
     depth_factor : {RInt(2)},
     min_absolute_value : {RInt(1)},
     n_waveform_bars : {RInt(1), RInt(2)},
     scale : {RInt(1)},
     mask_val : {RInt(5)}]

Responses == {"Success", "SuccessNoSongs", "NoMatch"}
OnlineModes == {"loudness_max", "pitches", "timbre"}
LocalModes == {"waveform", "stft"}

Segments ==
    {[loudness_max |-> RInt(-2), pitches |-> <<RInt(1), RInt(2)>>,
      timbre |-> <<RInt(-1), RInt(2)>>],
     [loudness_max |-> RInt(1), pitches |-> <<RInt(0), RInt(0)>>,
      timbre |-> <<RInt(2), RInt(1)>>]}

Samples == {RInt(-1), RInt(2)}
Magnitudes == {RInt(0), RInt(1)}
MagnitudeMatrices ==
    UNION {[1..r -> [1..c -> Magnitudes]] : r \in 1..MaxBins, c \in 0..MaxFrames}

Init ==
    /\ op = "init"
    /\ input_list = <<>>
    /\ args = [mode |-> "none"]
    /\ ret = NoRet
    /\ settings \in SettingsFiles
    /\ self = Waveform3d(settings)
    /\ calls = <<>>
    /\ runs = 0

Finish(o) ==
    /\ self' = o.self
    /\ calls' = o.calls
    /\ ret' = [status |-> o.status, found |-> o.found, exported |-> o.exported,
               model_3d |-> o.model_3d, mask_val |-> o.mask_val, scale |-> o.scale]
    /\ runs' = runs + 1
    /\ UNCHANGED <<input_list, settings>>

OnlineMusic3d ==
    /\ runs < MaxRuns
    /\ \E response \in Responses, mode \in OnlineModes :
       \E segments \in IF response = "Success"
                       THEN SeqsUpTo(Segments, MaxSegments) ELSE {<<>>} :
          /\ args' = [mode |-> mode, response |-> response, segments |-> segments]
          /\ Finish(online_music_3d(self, response, segments, mode))
    /\ op' = "online_music_3d"

LocalAudio3d ==
    /\ runs < MaxRuns
    /\ \E mode \in LocalModes :
       \E waveform \in IF mode = "waveform"
                       THEN SeqsUpTo(Samples, MaxSamples) ELSE {<<RInt(1)>>} :
       \E stft \in IF mode = "stft" THEN MagnitudeMatrices ELSE {<<>>} :
          /\ args' = [mode |-> mode, waveform |-> waveform, stft |-> stft]
          /\ Finish(local_audio_3d(self, waveform, stft, mode))
    /\ op' = "local_audio_3d"

Next == OnlineMusic3d \/ LocalAudio3d

Spec == Init /\ [][Next]_vars

ConfigFields ==
    {"height_Y", "height_Z", "ma_window_size", "depth_factor",
     "min_absolute_value", "n_waveform_bars", "scale", "mask_val"}

\* C6: after any sequence of driver invocations every configuration field
\* still holds the value load_settings stored.
C6_ConfigReadOnly ==
    \A f \in ConfigFields : self[f] = load_settings(settings)[f]

DownstreamStages ==
    {"_get_features_list", "_process_loudness_list", "_rescale_list",
     "make_waveform_square", "make_waveform_3d", "_increase_model_depth",
     "numpy2stl"}

StagesRun == {calls[i] : i \in 1..Len(calls)}

\* C7: when _get_segments returns None, online_music_3d runs no downstream
\* stage in that invocation (no feature extraction, normalization, rescale,
\* quantization, extrusion, depth replication or export) and returns normally.
C7_NotFoundShortCircuit ==
    (/\ op = "online_music_3d"
     /\ _get_segments(args.response, args.segments).status = "ok"
     /\ _get_segments(args.response, args.segments).none)
      => /\ StagesRun \cap DownstreamStages = {}
         /\ ret.status = "ok"
         /\ ~ret.exported

C7_Witness ==
    /\ op = "online_music_3d"
    /\ args.response = "NoMatch"
    /\ runs = 2
    /\ calls = <<"_get_segments">>
    /\ self.OUTPUT_FOLDER = <<"o", "/">>

====
